---- MODULE Spec2Model ----
(***************************************************************************)
(* Model of iFit.py, the batch fitting script of the iFit repository.      *)
(*                                                                         *)
(* The script is a straight-line program: file discovery, parameter        *)
(* registry setup, Analyser construction, dark spectrum, optional figure,  *)
(* then one loop over the measurement files and a final to_csv.  Each      *)
(* statement group is one action, sequenced by pc.                         *)
(*                                                                         *)
(* Floating point values are abstracted to integer codes:                  *)
(*   0.0 -> 0, 0.1 -> 1, 0.6 -> 6, 1.0 -> 10, 2.0 -> 20 (tenths),          *)
(*   1.0e16 -> 1016, 1.0e19 -> 1019, NaN -> -1,                            *)
(*   values produced by a fit -> 100*v + j (v the fit outcome drawn,       *)
(*   j the position of the parameter).                                     *)
(* File names are the part after 'Example/spectrum_' (or 'Example/dark'),  *)
(* as sequences of character codes.                                        *)
(***************************************************************************)
EXTENDS Integers, Sequences, FiniteSets, TLC

VARIABLES
    pc,             \* position of the script
    disk_meas,      \* names on disk matching 'Example/spectrum_*'
    disk_dark,      \* names on disk matching 'Example/dark*'
    plotting_flag,  \* line 54
    dark_fnames,    \* line 42
    meas_fnames,    \* line 43
    params,         \* the script's Parameters object (line 61)
    analyser,       \* the Analyser object (line 88)
    view,           \* the matplotlib figure and its six lines
    cols,           \* line 138
    df,             \* line 144
    i,              \* loop index of line 146
    cur,            \* x, y, spec_info, read_err of the current iteration
    fit,            \* the FitResult of the current iteration
    saved_file,     \* what to_csv has written to save_path
    abort_cause,    \* why the script stopped with a traceback, if it did
    read_log,       \* history: every read_spectrum call and its result
    fit_log,        \* history: every fit_spectrum call, its seeds and result
    events          \* history: the order of the script's steps

vars == <<pc, disk_meas, disk_dark, plotting_flag, dark_fnames, meas_fnames,
          params, analyser, view, cols, df, i, cur, fit, saved_file,
          abort_cause, read_log, fit_log, events>>

-----------------------------------------------------------------------------
(* Bounds of the model *)

MaxFiles == 3
MaxFitVal == 2

-----------------------------------------------------------------------------
(* Values and names *)

NaN == 0 - 1

Backslash == 92
Slash == 47

\* the digits 1, 2, 3 and the backslash: a POSIX file name may hold a backslash
Chars == {49, 50, 51, Backslash}

FileNames == {<<c>> : c \in Chars}

DarkNames == {<<49>>, <<50>>}

Perms(S) ==
    {s \in [1..Cardinality(S) -> S] : \A a, b \in 1..Cardinality(S) : s[a] = s[b] => a = b}

RECURSIVE LexLess(_, _)
LexLess(a, b) ==
    IF a = <<>> THEN b # <<>>
    ELSE IF b = <<>> THEN FALSE
    ELSE IF Head(a) # Head(b) THEN Head(a) < Head(b)
    ELSE LexLess(Tail(a), Tail(b))

LexLeq(a, b) == a = b \/ LexLess(a, b)

IsSorted(s) == \A k \in 1..(Len(s) - 1) : LexLeq(s[k], s[k + 1])

\* the lists are used in the order glob returned them
SortNone(s) == s

\* list.sort() on strings: ascending by code point
Sort(s) == SortSeq(s, LexLess)

\* f.replace('\\', '/')
Replace(f) == [j \in 1..Len(f) |-> IF f[j] = Backslash THEN Slash ELSE f[j]]

Normalise(s) == [k \in 1..Len(s) |-> Replace(s[k])]

RECURSIVE SumSeq(_)
SumSeq(s) == IF s = <<>> THEN 0 ELSE Head(s) + SumSeq(Tail(s))

N == Len(meas_fnames)

-----------------------------------------------------------------------------
(* The parameter registry *)

\* the params.add calls of lines 64-85, in order
ParamDefs == <<
    [name |-> "SO2",      value |-> 1016, vary |-> TRUE, xpath |-> "Ref/SO2_295K.txt"],
    [name |-> "O3",       value |-> 1019, vary |-> TRUE, xpath |-> "Ref/O3_243K.txt"],
    [name |-> "Ring",     value |-> 1,    vary |-> TRUE, xpath |-> "Ref/Ring.txt"],
    [name |-> "bg_poly0", value |-> 0,    vary |-> TRUE, xpath |-> ""],
    [name |-> "bg_poly1", value |-> 0,    vary |-> TRUE, xpath |-> ""],
    [name |-> "bg_poly2", value |-> 0,    vary |-> TRUE, xpath |-> ""],
    [name |-> "bg_poly3", value |-> 10,   vary |-> TRUE, xpath |-> ""],
    [name |-> "offset0",  value |-> 0,    vary |-> TRUE, xpath |-> ""],
    [name |-> "shift0",   value |-> 0,    vary |-> TRUE, xpath |-> ""],
    [name |-> "shift1",   value |-> 1,    vary |-> TRUE, xpath |-> ""],
    [name |-> "fwem",     value |-> 6,    vary |-> TRUE, xpath |-> ""],
    [name |-> "k",        value |-> 20,   vary |-> TRUE, xpath |-> ""],
    [name |-> "a_w",      value |-> 0,    vary |-> TRUE, xpath |-> ""],
    [name |-> "a_k",      value |-> 0,    vary |-> TRUE, xpath |-> ""] >>

NParams == Len(ParamDefs)

HasName(reg, name) == \E j \in 1..Len(reg) : reg[j].name = name

\* Parameters.add: appends in insertion order; a name already present is refused
CanAdd(reg, p) == ~HasName(reg, p.name)

Add(reg, p) == Append(reg, p)

\* the registry as the Analyser keeps it: its own copy
MakeCopy(reg) == reg

Seeds(reg) == [j \in 1..Len(reg) |-> reg[j].value]

-----------------------------------------------------------------------------
(* Initial state: the script has not run yet; the disk and the flag are    *)
(* its inputs.                                                             *)

NoView == [state |-> "Uninitialized", updates |-> 0, tight |-> 0,
           shown |-> NaN, l5 |-> << <<>>, <<>> >>]

NoAnalyser == [made |-> FALSE, params |-> <<>>, dark_spec |-> NaN, dark_set |-> 0]

NoCur == [fname |-> <<>>, y |-> <<>>, time |-> NaN, read_err |-> FALSE]

NoFit == [params |-> <<>>, nerr |-> 0, int_lo |-> NaN, int_hi |-> NaN,
          int_av |-> NaN, spec |-> <<>>, meas_od |-> <<>>, synth_od |-> <<>>]

NoFile == [count |-> 0, header |-> <<>>, rows |-> <<>>]

Init ==
    /\ pc = "glob"
    /\ disk_meas \in {S \in SUBSET FileNames : Cardinality(S) <= MaxFiles}
    /\ disk_dark \in {{}, DarkNames}
    /\ plotting_flag \in BOOLEAN
    /\ dark_fnames = <<>>
    /\ meas_fnames = <<>>
    /\ params = <<>>
    /\ analyser = NoAnalyser
    /\ view = NoView
    /\ cols = <<>>
    /\ df = <<>>
    /\ i = 0
    /\ cur = NoCur
    /\ fit = NoFit
    /\ saved_file = NoFile
    /\ abort_cause = "none"
    /\ read_log = <<>>
    /\ fit_log = <<>>
    /\ events = <<>>

\* an uncaught exception: traceback, non-zero exit, nothing after it runs
Abort(cause) ==
    /\ pc' = "aborted"
    /\ abort_cause' = cause

-----------------------------------------------------------------------------
(* Setup, lines 42-96 *)

\* glob.glob returns the matching names in arbitrary order
Glob ==
    /\ pc = "glob"
    /\ dark_fnames' \in Perms(disk_dark)
    /\ meas_fnames' \in Perms(disk_meas)
    /\ pc' = "sort"
    /\ UNCHANGED <<disk_meas, disk_dark, plotting_flag, params, analyser, view,
                   cols, df, i, cur, fit, saved_file, abort_cause, read_log,
                   fit_log, events>>

SortFiles ==
    /\ pc = "sort"
    /\ dark_fnames' = Sort(dark_fnames)
    /\ meas_fnames' = Sort(meas_fnames)
    /\ pc' = "norm"
    /\ UNCHANGED <<disk_meas, disk_dark, plotting_flag, params, analyser, view,
                   cols, df, i, cur, fit, saved_file, abort_cause, read_log,
                   fit_log, events>>

NormaliseFiles ==
    /\ pc = "norm"
    /\ dark_fnames' = Normalise(dark_fnames)
    /\ meas_fnames' = Normalise(meas_fnames)
    /\ pc' = "params"
    /\ UNCHANGED <<disk_meas, disk_dark, plotting_flag, params, analyser, view,
                   cols, df, i, cur, fit, saved_file, abort_cause, read_log,
                   fit_log, events>>

\* one params.add call
AddParam ==
    /\ pc = "params"
    /\ LET p == ParamDefs[Len(params) + 1] IN
         IF CanAdd(params, p)
         THEN /\ params' = Add(params, p)
              /\ pc' = IF Len(params) + 1 = NParams THEN "analyser" ELSE "params"
              /\ UNCHANGED abort_cause
         ELSE /\ Abort("setup")
              /\ UNCHANGED params
    /\ UNCHANGED <<disk_meas, disk_dark, plotting_flag, dark_fnames, meas_fnames,
                   analyser, view, cols, df, i, cur, fit, saved_file, read_log,
                   fit_log, events>>

MakeAnalyser ==
    /\ pc = "analyser"
    /\ analyser' = [made |-> TRUE, params |-> MakeCopy(params),
                    dark_spec |-> NaN, dark_set |-> 0]
    /\ pc' = "dark"
    /\ UNCHANGED <<disk_meas, disk_dark, plotting_flag, dark_fnames, meas_fnames,
                   params, view, cols, df, i, cur, fit, saved_file, abort_cause,
                   read_log, fit_log, events>>

\* average_spectra: the mean of the dark files' intensities; a dark file
\* named c holds intensity c
AverageSpectra(fnames) ==
    IF fnames = <<>> THEN NaN
    ELSE SumSeq([k \in 1..Len(fnames) |-> fnames[k][1]]) \div Len(fnames)

\* the dark spectrum is averaged but line 96 is missing
ReadDarkNotInstalled ==
    /\ pc = "dark"
    /\ events' = Append(events, <<"dark", 0>>)
    /\ pc' = "figure"
    /\ UNCHANGED <<disk_meas, disk_dark, plotting_flag, dark_fnames, meas_fnames,
                   params, analyser, view, cols, df, i, cur, fit, saved_file,
                   abort_cause, read_log, fit_log>>

\* lines 95-96
ReadDark ==
    /\ pc = "dark"
    /\ analyser' = [analyser EXCEPT !.dark_spec = AverageSpectra(dark_fnames),
                                    !.dark_set = @ + 1]
    /\ events' = Append(events, <<"dark", 0>>)
    /\ pc' = "figure"
    /\ UNCHANGED <<disk_meas, disk_dark, plotting_flag, dark_fnames, meas_fnames,
                   params, view, cols, df, i, cur, fit, saved_file, abort_cause,
                   read_log, fit_log>>

-----------------------------------------------------------------------------
(* Figure, lines 104-129 *)

\* plt.figure and the six empty lines; matplotlib raises when it cannot
\* open a canvas
MakeFigure ==
    /\ pc = "figure"
    /\ \/ /\ ~plotting_flag
          /\ pc' = "cols"
          /\ UNCHANGED <<view, abort_cause, events>>
       \/ /\ plotting_flag
          /\ view' = [view EXCEPT !.state = "Ready"]
          /\ events' = Append(events, <<"figure", 0>>)
          /\ pc' = "cols"
          /\ UNCHANGED abort_cause
       \/ /\ plotting_flag
          /\ Abort("view")
          /\ UNCHANGED <<view, events>>
    /\ UNCHANGED <<disk_meas, disk_dark, plotting_flag, dark_fnames, meas_fnames,
                   params, analyser, cols, df, i, cur, fit, saved_file, read_log,
                   fit_log>>

-----------------------------------------------------------------------------
(* Result table, lines 137-144 *)

RECURSIVE ParCols(_)
ParCols(reg) ==
    IF reg = <<>> THEN <<>>
    ELSE <<Head(reg).name, Head(reg).name \o "_err">> \o ParCols(Tail(reg))

RECURSIVE ParColsErrFirst(_)
ParColsErrFirst(reg) ==
    IF reg = <<>> THEN <<>>
    ELSE <<Head(reg).name \o "_err", Head(reg).name>> \o ParColsErrFirst(Tail(reg))

HeaderErrFirst(reg) ==
    <<"Number", "Time">> \o ParColsErrFirst(reg)
        \o <<"fit_quality", "int_lo", "int_hi", "int_av">>

\* lines 138-141
Header(reg) ==
    <<"Number", "Time">> \o ParCols(reg)
        \o <<"fit_quality", "int_lo", "int_hi", "int_av">>

MakeCols ==
    /\ pc = "cols"
    /\ cols' = Header(params)
    /\ pc' = "df"
    /\ UNCHANGED <<disk_meas, disk_dark, plotting_flag, dark_fnames, meas_fnames,
                   params, analyser, view, df, i, cur, fit, saved_file,
                   abort_cause, read_log, fit_log, events>>

EmptyRow == [c \in 1..Len(cols) |-> NaN]

\* pd.DataFrame(index=np.arange(len(meas_fnames)), columns=cols): N rows of NaN
NewFrame == [k \in 1..N |-> EmptyRow]

\* what the for statement does after an iteration body: next item, or leave
Advance ==
    IF i + 1 < N
    THEN /\ i' = i + 1
         /\ pc' = "read"
    ELSE /\ i' = i
         /\ pc' = "show"

MakeDf ==
    /\ pc = "df"
    /\ df' = NewFrame
    /\ i' = 0
    /\ pc' = IF N > 0 THEN "read" ELSE "show"
    /\ UNCHANGED <<disk_meas, disk_dark, plotting_flag, dark_fnames, meas_fnames,
                   params, analyser, view, cols, cur, fit, saved_file,
                   abort_cause, read_log, fit_log, events>>

Pos(name) == CHOOSE j \in 1..Len(cols) : cols[j] = name

\* df.dropna()[name]: the column without the rows that are still NaN
ColumnDropNa(frame, name) ==
    LET filled == SelectSeq(frame, LAMBDA r : r # [c \in 1..Len(cols) |-> NaN])
    IN  [k \in 1..Len(filled) |-> filled[k][Pos(name)]]

\* df[name]
Column(frame, name) == [k \in 1..Len(frame) |-> frame[k][Pos(name)]]

IsFilled(r) == r # EmptyRow

-----------------------------------------------------------------------------
(* The loaders and the Analyser (the ifit package) *)

MinOf(y) == CHOOSE a \in {y[k] : k \in 1..Len(y)} : \A k \in 1..Len(y) : a <= y[k]

MaxOf(y) == CHOOSE a \in {y[k] : k \in 1..Len(y)} : \A k \in 1..Len(y) : a >= y[k]

\* read_spectrum: x, y, spec_info, read_err.  A file named c holds the
\* intensities c, c+2 and the acquisition time c.  A name that is not on
\* disk, or a file that does not parse, is reported through read_err.
ReadSpectrum(fname, parses) ==
    IF fname \in disk_meas /\ parses
    THEN [fname |-> fname, y |-> <<fname[1], fname[1] + 2>>,
          time |-> fname[1], read_err |-> FALSE]
    ELSE [fname |-> fname, y |-> <<>>, time |-> NaN, read_err |-> TRUE]

\* what one fit can come out as: the solver's status and the values drawn
FitOutcomes == [nerr : {0, 1}, v : 1..MaxFitVal]

\* Analyser.fit_spectrum: a FitResult whose params are the Analyser's own
\* parameters, in their order, with fit_val and fit_err filled in; nerr
\* flags a failed fit, and nothing can be fitted to an empty spectrum
FitSpectrum(an, y, opts, o) ==
    [params   |-> [j \in 1..Len(an.params) |->
                      [name |-> an.params[j].name,
                       fit_val |-> 100 * o.v + j,
                       fit_err |-> o.v]],
     nerr     |-> IF y = <<>> THEN 1 ELSE o.nerr,
     int_lo   |-> IF y = <<>> THEN NaN ELSE MinOf(y),
     int_hi   |-> IF y = <<>> THEN NaN ELSE MaxOf(y),
     int_av   |-> IF y = <<>> THEN NaN ELSE SumSeq(y) \div Len(y),
     spec     |-> y,
     meas_od  |-> [s \in opts.calc_od |-> o.v],
     synth_od |-> [s \in opts.calc_od |-> o.v + 1]]

\* update_params: a fit that succeeded becomes the seed of the next call
AnalyserAfter(an, result, opts) ==
    IF opts.update_params /\ result.nerr = 0
    THEN [an EXCEPT !.params =
             [j \in 1..Len(an.params) |->
                 [an.params[j] EXCEPT !.value = result.params[j].fit_val]]]
    ELSE an

-----------------------------------------------------------------------------
(* The loop, lines 146-178 *)

FitOptionsNoUpdate ==
    [update_params |-> FALSE, interp_method |-> "linear", calc_od |-> {"SO2"}]

\* the keyword arguments of lines 151-153
FitOptions ==
    [update_params |-> TRUE, interp_method |-> "linear", calc_od |-> {"SO2"}]

\* line 148 followed by "if read_err: raise"
LoopReadStopOnErr ==
    /\ pc = "read"
    /\ \E parses \in BOOLEAN :
         LET r == ReadSpectrum(meas_fnames[i + 1], parses) IN
           /\ cur' = r
           /\ read_log' = Append(read_log, r)
           /\ IF r.read_err
              THEN Abort("read")
              ELSE pc' = "fit" /\ UNCHANGED abort_cause
    /\ events' = Append(events, <<"load", i>>)
    /\ UNCHANGED <<disk_meas, disk_dark, plotting_flag, dark_fnames, meas_fnames,
                   params, analyser, view, cols, df, i, fit, saved_file,
                   fit_log>>

\* line 148; read_err is bound and never looked at
LoopRead ==
    /\ pc = "read"
    /\ \E parses \in BOOLEAN :
         LET r == ReadSpectrum(meas_fnames[i + 1], parses) IN
           /\ cur' = r
           /\ read_log' = Append(read_log, r)
    /\ events' = Append(events, <<"load", i>>)
    /\ pc' = "fit"
    /\ UNCHANGED <<disk_meas, disk_dark, plotting_flag, dark_fnames, meas_fnames,
                   params, analyser, view, cols, df, i, fit, saved_file,
                   abort_cause, fit_log>>

\* lines 150-153
LoopFit ==
    /\ pc = "fit"
    /\ \E o \in FitOutcomes :
         LET result == FitSpectrum(analyser, cur.y, FitOptions, o) IN
           /\ fit' = result
           /\ analyser' = AnalyserAfter(analyser, result, FitOptions)
           /\ fit_log' = Append(fit_log,
                                [index |-> i,
                                 seeds |-> Seeds(analyser.params),
                                 dark |-> analyser.dark_spec,
                                 dark_set |-> analyser.dark_set,
                                 y |-> cur.y,
                                 result |-> result])
    /\ events' = Append(events, <<"fit", i>>)
    /\ pc' = "row"
    /\ UNCHANGED <<disk_meas, disk_dark, plotting_flag, dark_fnames, meas_fnames,
                   params, view, cols, df, i, cur, saved_file, abort_cause,
                   read_log>>

\* the pair appended as (fit_err, fit_val)
RECURSIVE ParValsErrFirst(_)
ParValsErrFirst(ps) ==
    IF ps = <<>> THEN <<>>
    ELSE <<Head(ps).fit_err, Head(ps).fit_val>> \o ParValsErrFirst(Tail(ps))

RECURSIVE ParVals(_)
ParVals(ps) ==
    IF ps = <<>> THEN <<>>
    ELSE <<Head(ps).fit_val, Head(ps).fit_err>> \o ParVals(Tail(ps))

\* the row numbered from 1
RowOneBased(idx, time, result) ==
    <<idx + 1, time>> \o ParVals(result.params)
        \o <<result.nerr, result.int_lo, result.int_hi, result.int_av>>

\* lines 156-160
Row(idx, time, result) ==
    <<idx, time>> \o ParVals(result.params)
        \o <<result.nerr, result.int_lo, result.int_hi, result.int_av>>

\* the row of a failed fit is dropped
LoopRowSkipFailed ==
    /\ pc = "row"
    /\ LET row == Row(i, cur.time, fit) IN
         IF Len(row) = Len(cols)
         THEN /\ df' = IF fit.nerr = 0 THEN [df EXCEPT ![i + 1] = row] ELSE df
              /\ events' = Append(events, <<"record", i>>)
              /\ IF plotting_flag
                 THEN pc' = "plot" /\ i' = i
                 ELSE Advance
              /\ UNCHANGED abort_cause
         ELSE /\ Abort("record")
              /\ UNCHANGED <<df, events, i>>
    /\ UNCHANGED <<disk_meas, disk_dark, plotting_flag, dark_fnames, meas_fnames,
                   params, analyser, view, cols, cur, fit, saved_file, read_log,
                   fit_log>>

\* the update block of lines 163-178 dedented out of the loop body: the next
\* spectrum is loaded before the current one is rendered
LoopRowPlotOutsideLoop ==
    /\ pc = "row"
    /\ LET row == Row(i, cur.time, fit) IN
         IF Len(row) = Len(cols)
         THEN /\ df' = [df EXCEPT ![i + 1] = row]
              /\ events' = Append(events, <<"record", i>>)
              /\ IF plotting_flag /\ i + 1 = N
                 THEN pc' = "plot" /\ i' = i
                 ELSE Advance
              /\ UNCHANGED abort_cause
         ELSE /\ Abort("record")
              /\ UNCHANGED <<df, events, i>>
    /\ UNCHANGED <<disk_meas, disk_dark, plotting_flag, dark_fnames, meas_fnames,
                   params, analyser, view, cols, cur, fit, saved_file, read_log,
                   fit_log>>

\* the row written one place too far, df.loc[(i + 1) % N] = row
LoopRowOffByOne ==
    /\ pc = "row"
    /\ LET row == Row(i, cur.time, fit) IN
         IF Len(row) = Len(cols)
         THEN /\ df' = [df EXCEPT ![((i + 1) % N) + 1] = row]
              /\ events' = Append(events, <<"record", i>>)
              /\ IF plotting_flag
                 THEN pc' = "plot" /\ i' = i
                 ELSE Advance
              /\ UNCHANGED abort_cause
         ELSE /\ Abort("record")
              /\ UNCHANGED <<df, events, i>>
    /\ UNCHANGED <<disk_meas, disk_dark, plotting_flag, dark_fnames, meas_fnames,
                   params, analyser, view, cols, cur, fit, saved_file, read_log,
                   fit_log>>

\* incremental persistence: df.to_csv(save_path) after every row
LoopRowSavesEachRow ==
    /\ pc = "row"
    /\ LET row == Row(i, cur.time, fit) IN
         IF Len(row) = Len(cols)
         THEN /\ df' = [df EXCEPT ![i + 1] = row]
              /\ saved_file' = [count |-> 1, header |-> cols, rows |-> df']
              /\ events' = Append(events, <<"record", i>>)
              /\ IF plotting_flag
                 THEN pc' = "plot" /\ i' = i
                 ELSE Advance
              /\ UNCHANGED abort_cause
         ELSE /\ Abort("record")
              /\ UNCHANGED <<df, events, i, saved_file>>
    /\ UNCHANGED <<disk_meas, disk_dark, plotting_flag, dark_fnames, meas_fnames,
                   params, analyser, view, cols, cur, fit, read_log, fit_log>>

\* lines 156-161; df.loc[i] = row raises when the lengths differ
LoopRow ==
    /\ pc = "row"
    /\ LET row == Row(i, cur.time, fit) IN
         IF Len(row) = Len(cols)
         THEN /\ df' = [df EXCEPT ![i + 1] = row]
              /\ events' = Append(events, <<"record", i>>)
              /\ IF plotting_flag
                 THEN pc' = "plot" /\ i' = i
                 ELSE Advance
              /\ UNCHANGED abort_cause
         ELSE /\ Abort("record")
              /\ UNCHANGED <<df, events, i>>
    /\ UNCHANGED <<disk_meas, disk_dark, plotting_flag, dark_fnames, meas_fnames,
                   params, analyser, view, cols, cur, fit, saved_file, read_log,
                   fit_log>>

\* the plot update numbers the rows still to come in df itself
LoopPlotTrimsFrame ==
    /\ pc = "plot"
    /\ \/ /\ "SO2" \in DOMAIN fit.meas_od
          /\ view' = [state   |-> "Updating",
                      updates |-> view.updates + 1,
                      tight   |-> IF i = 0 THEN view.tight + 1 ELSE view.tight,
                      shown   |-> i,
                      l5      |-> <<Column(df, "Number"), Column(df, "SO2")>>]
          /\ df' = [k \in 1..Len(df) |->
                      IF k <= i + 1 THEN df[k]
                      ELSE [df[k] EXCEPT ![Pos("Number")] = k - 1]]
          /\ events' = IF i = 0
                       THEN Append(Append(events, <<"render", i>>), <<"tight", i>>)
                       ELSE Append(events, <<"render", i>>)
          /\ Advance
          /\ UNCHANGED abort_cause
       \/ /\ Abort("view")
          /\ UNCHANGED <<view, events, i, df>>
    /\ UNCHANGED <<disk_meas, disk_dark, plotting_flag, dark_fnames, meas_fnames,
                   params, analyser, cols, cur, fit, saved_file, read_log,
                   fit_log>>

\* plt.tight_layout() called without the "if i == 0" of line 177
LoopPlotTightAlways ==
    /\ pc = "plot"
    /\ \/ /\ "SO2" \in DOMAIN fit.meas_od
          /\ view' = [state   |-> "Updating",
                      updates |-> view.updates + 1,
                      tight   |-> view.tight + 1,
                      shown   |-> i,
                      l5      |-> <<Column(df, "Number"), Column(df, "SO2")>>]
          /\ events' = Append(Append(events, <<"render", i>>), <<"tight", i>>)
          /\ Advance
          /\ UNCHANGED abort_cause
       \/ /\ Abort("view")
          /\ UNCHANGED <<view, events, i>>
    /\ UNCHANGED <<disk_meas, disk_dark, plotting_flag, dark_fnames, meas_fnames,
                   params, analyser, cols, df, cur, fit, saved_file, read_log,
                   fit_log>>

\* lines 163-178; any matplotlib call may raise
LoopPlot ==
    /\ pc = "plot"
    /\ \/ /\ "SO2" \in DOMAIN fit.meas_od
          /\ view' = [state   |-> "Updating",
                      updates |-> view.updates + 1,
                      tight   |-> IF i = 0 THEN view.tight + 1 ELSE view.tight,
                      shown   |-> i,
                      l5      |-> <<Column(df, "Number"), Column(df, "SO2")>>]
          /\ events' = IF i = 0
                       THEN Append(Append(events, <<"render", i>>), <<"tight", i>>)
                       ELSE Append(events, <<"render", i>>)
          /\ Advance
          /\ UNCHANGED abort_cause
       \/ /\ Abort("view")
          /\ UNCHANGED <<view, events, i>>
    /\ UNCHANGED <<disk_meas, disk_dark, plotting_flag, dark_fnames, meas_fnames,
                   params, analyser, cols, df, cur, fit, saved_file, read_log,
                   fit_log>>

\* the loop wrapped in try/finally with to_csv in the finally block
InterruptThenSave ==
    /\ pc \in {"read", "fit", "row", "plot"}
    /\ Abort("interrupt")
    /\ saved_file' = [count |-> saved_file.count + 1, header |-> cols, rows |-> df]
    /\ UNCHANGED <<disk_meas, disk_dark, plotting_flag, dark_fnames, meas_fnames,
                   params, analyser, view, cols, df, i, cur, fit, read_log,
                   fit_log, events>>

\* an exception raised inside an iteration (KeyboardInterrupt included) is
\* caught nowhere: the script ends there
Interrupt ==
    /\ pc \in {"read", "fit", "row", "plot"}
    /\ Abort("interrupt")
    /\ UNCHANGED <<disk_meas, disk_dark, plotting_flag, dark_fnames, meas_fnames,
                   params, analyser, view, cols, df, i, cur, fit, saved_file,
                   read_log, fit_log, events>>

-----------------------------------------------------------------------------
(* After the loop, lines 180-186 *)

\* plt.show() called without the "if plotting_flag" of line 180
ShowAlways ==
    /\ pc = "show"
    /\ view' = [view EXCEPT !.state = "Closed"]
    /\ events' = Append(events, <<"show", 0>>)
    /\ pc' = "blocked"
    /\ UNCHANGED <<disk_meas, disk_dark, plotting_flag, dark_fnames, meas_fnames,
                   params, analyser, cols, df, i, cur, fit, saved_file,
                   abort_cause, read_log, fit_log>>

\* plt.show(block=False): the script goes on while the window is open
ShowNonBlocking ==
    /\ pc = "show"
    /\ IF plotting_flag
       THEN /\ view' = [view EXCEPT !.state = "Closed"]
            /\ events' = Append(events, <<"show", 0>>)
            /\ pc' = "save"
       ELSE /\ pc' = "save"
            /\ UNCHANGED <<view, events>>
    /\ UNCHANGED <<disk_meas, disk_dark, plotting_flag, dark_fnames, meas_fnames,
                   params, analyser, cols, df, i, cur, fit, saved_file,
                   abort_cause, read_log, fit_log>>

\* lines 180-181: plt.show() blocks until the window is closed
Show ==
    /\ pc = "show"
    /\ IF plotting_flag
       THEN /\ view' = [view EXCEPT !.state = "Closed"]
            /\ events' = Append(events, <<"show", 0>>)
            /\ pc' = "blocked"
       ELSE /\ pc' = "save"
            /\ UNCHANGED <<view, events>>
    /\ UNCHANGED <<disk_meas, disk_dark, plotting_flag, dark_fnames, meas_fnames,
                   params, analyser, cols, df, i, cur, fit, saved_file,
                   abort_cause, read_log, fit_log>>

\* the user closes the window and plt.show() returns
Dismiss ==
    /\ pc = "blocked"
    /\ pc' = "save"
    /\ events' = Append(events, <<"dismiss", 0>>)
    /\ UNCHANGED <<disk_meas, disk_dark, plotting_flag, dark_fnames, meas_fnames,
                   params, analyser, view, cols, df, i, cur, fit, saved_file,
                   abort_cause, read_log, fit_log>>

\* line 185: df.to_csv(save_path)
Save ==
    /\ pc = "save"
    /\ saved_file' = [count |-> saved_file.count + 1, header |-> cols, rows |-> df]
    /\ events' = Append(events, <<"save", 0>>)
    /\ pc' = "done"
    /\ UNCHANGED <<disk_meas, disk_dark, plotting_flag, dark_fnames, meas_fnames,
                   params, analyser, view, cols, df, i, cur, fit, abort_cause,
                   read_log, fit_log>>

-----------------------------------------------------------------------------

Next ==
    \/ Glob
    \/ SortFiles
    \/ NormaliseFiles
    \/ AddParam
    \/ MakeAnalyser
    \/ ReadDark
    \/ MakeFigure
    \/ MakeCols
    \/ MakeDf
    \/ LoopRead
    \/ LoopFit
    \/ LoopRow
    \/ LoopPlot
    \/ Interrupt
    \/ Show
    \/ Dismiss
    \/ Save

Spec == Init /\ [][Next]_vars

-----------------------------------------------------------------------------
(* Properties *)

AfterLoop == pc \in {"show", "blocked", "save", "done"}

LoopStarted == read_log # <<>>

ValCol(j) == 2 * j + 1

ErrCol(j) == 2 * j + 2

\* row k (1-based) holds the read and the fit that were logged k-th
HoldsResult(r, k) ==
    /\ r[2] = read_log[k].time
    /\ \A j \in 1..NParams :
         /\ r[ValCol(j)] = fit_log[k].result.params[j].fit_val
         /\ r[ErrCol(j)] = fit_log[k].result.params[j].fit_err
    /\ r[Pos("fit_quality")] = fit_log[k].result.nerr
    /\ r[Pos("int_lo")] = fit_log[k].result.int_lo
    /\ r[Pos("int_hi")] = fit_log[k].result.int_hi
    /\ r[Pos("int_av")] = fit_log[k].result.int_av

C1_Complete ==
    (pc = "done" /\ IsSorted(meas_fnames)) =>
        /\ Len(df) = N
        /\ Len(saved_file.rows) = N
        /\ Len(read_log) = N
        /\ \A k \in 1..N :
             /\ read_log[k].fname = Sort(meas_fnames)[k]
             /\ df[k][Pos("Number")] = k - 1
             /\ HoldsResult(df[k], k)

C1_NoReshuffle ==
    \A k \in 1..Len(df) : IsFilled(df[k]) => df'[k] = df[k]

\* C1: for a sorted list of N identifiers, a run that completes leaves a table
\* of exactly N rows, row k holding the result of the k-th identifier in
\* sorted order with Number = k (0..N-1); a row once written never changes.
C1_Ordering == [](C1_Complete) /\ [][C1_NoReshuffle]_vars

C1_Witness ==
    /\ pc = "done"
    /\ N = 3
    /\ IsSorted(meas_fnames)
    /\ \A k \in 1..N : IsFilled(df[k])

\* C2 as stated: once the loop has ended, by exhausting the list or by a
\* failure raised inside an iteration, the table has been persisted exactly
\* once by the time the script is over.
C2_PersistedOnceEitherWay ==
    (pc \in {"done", "aborted"} /\ LoopStarted) => saved_file.count = 1

\* C2 amended: the table is persisted at most once, and only by a run that
\* processed every identifier: a completed run has persisted it exactly once,
\* all rows included; a run stopped by a failure inside an iteration has not
\* persisted anything.
C2_PersistedOnceOnCompletion ==
    /\ saved_file.count <= 1
    /\ pc = "done" =>
         /\ saved_file.count = 1
         /\ saved_file.rows = df
         /\ Len(read_log) = N
         /\ Len(fit_log) = N
    /\ pc = "aborted" => saved_file.count = 0
    /\ saved_file.count = 1 => pc = "done"

C2_Witness ==
    /\ pc = "done"
    /\ N >= 2
    /\ saved_file.count = 1

C4_FailedFitStillRecorded ==
    \A k \in 1..Len(fit_log) :
        fit_log[k].result.nerr # 0 =>
            /\ pc = "aborted" => abort_cause \in {"interrupt", "view"}
            /\ (k < Len(fit_log) \/ AfterLoop) =>
                 /\ IsFilled(df[k])
                 /\ df[k][Pos("fit_quality")] = fit_log[k].result.nerr
                 /\ HoldsResult(df[k], k)
            /\ pc = "done" => Len(fit_log) = N /\ \A m \in k..N : IsFilled(df[m])

C4_Witness ==
    /\ pc = "done"
    /\ N = 3
    /\ ~read_log[1].read_err
    /\ fit_log[1].result.nerr # 0
    /\ fit_log[2].result.nerr = 0
    /\ saved_file.count = 1

\* C5 as stated: a Live View update that fails in some iteration never aborts
\* the batch.
C5_ViewFailureNeverAborts ==
    ~(pc = "aborted" /\ abort_cause = "view" /\ LoopStarted)

C7_Header ==
    /\ pc \in {"glob", "sort", "norm", "params", "analyser", "dark", "figure", "cols"}
         => cols = <<>>
    /\ (pc \in {"df", "read", "fit", "row", "plot", "show", "blocked", "save", "done"}
        \/ LoopStarted) =>
         /\ Len(cols) = 2 * Len(params) + 6
         /\ cols[1] = "Number"
         /\ cols[2] = "Time"
         /\ cols[3] = "SO2"
         /\ \A j \in 1..Len(params) :
              /\ cols[ValCol(j)] = params[j].name
              /\ cols[ErrCol(j)] = params[j].name \o "_err"
         /\ SubSeq(cols, Len(cols) - 3, Len(cols))
                = <<"fit_quality", "int_lo", "int_hi", "int_av">>
    /\ saved_file.count > 0 => saved_file.header = cols

C7_Witness ==
    /\ pc = "done"
    /\ N >= 2
    /\ fit_log[1].result.nerr # fit_log[2].result.nerr
    /\ saved_file.header = cols
    /\ Len(cols) = 34

RecordedCount == Cardinality({e \in 1..Len(events) : events[e][1] = "record"})

\* the table a run without Live View holds after the same reads and fits
FrameWithoutView ==
    [k \in 1..N |->
        IF k <= RecordedCount
        THEN Row(k - 1, read_log[k].time, fit_log[k].result)
        ELSE EmptyRow]

\* C8: the table and the persisted file are the same with the Live View on or
\* off: at every point the table is what the reads and fits so far make it in
\* a run without the view, and what is persisted is that table in full.
C8_ViewIndependence ==
    /\ (pc \in {"read", "fit", "row", "plot", "show", "blocked", "save", "done"}
        \/ LoopStarted) => df = FrameWithoutView
    /\ saved_file.count > 0 =>
         /\ saved_file = [count |-> 1, header |-> Header(ParamDefs),
                          rows |-> FrameWithoutView]
         /\ RecordedCount = N

C8_Witness ==
    /\ pc = "done"
    /\ plotting_flag
    /\ view.updates = 3
    /\ N = 3
    /\ saved_file.rows = df

\* C9 as stated: with no measurement file the run stops before the loop and
\* never persists.
C9_NoFilesAborts ==
    disk_meas = {} => (saved_file.count = 0 /\ pc # "done")

DarkEvents == Cardinality({e \in 1..Len(events) : events[e][1] = "dark"})

\* C10: the dark reference is acquired exactly once per run, is installed in
\* the Analyser before the first fit, and every fit of the run sees that same
\* reference.
C10_DarkOnceBeforeFits ==
    /\ DarkEvents <= 1
    /\ analyser.dark_set <= 1
    /\ \A k \in 1..Len(fit_log) :
         /\ DarkEvents = 1
         /\ fit_log[k].dark_set = 1
         /\ fit_log[k].dark = AverageSpectra(dark_fnames)
         /\ fit_log[k].dark = analyser.dark_spec
         /\ fit_log[k].dark = fit_log[1].dark

C10_Witness ==
    /\ Len(fit_log) = 3
    /\ fit_log[3].dark = 49
    /\ disk_dark # {}


\* the names of S in ascending order, smallest first
RECURSIVE Ascending(_)
Ascending(S) ==
    IF S = {} THEN <<>>
    ELSE LET m == CHOOSE x \in S : \A y \in S : LexLeq(x, y)
         IN  <<m>> \o Ascending(S \ {m})

\* the file list a directory content leads to, whatever order glob lists it in
Canonical(S) == Normalise(Ascending(S))

JustNormalised == pc = "params" /\ params = <<>>

FitVals(result) == [j \in 1..Len(result.params) |-> result.params[j].fit_val]

\* C11: two runs over the same inputs with a deterministic loader and Analyser
\* give the same table and file.  On one run: the processing order depends on
\* the directory content alone and not on the order glob returns it in, every
\* call of the loader and of the Analyser gets arguments fixed by the inputs
\* and by the results of the earlier calls, and the persisted rows are fixed
\* by those results.
C11_Deterministic ==
    /\ JustNormalised =>
         /\ \A s \in Perms(disk_meas) : meas_fnames = Normalise(Sort(s))
         /\ \A s \in Perms(disk_dark) : dark_fnames = Normalise(Sort(s))
    /\ pc \notin {"glob", "sort", "norm"} =>
         /\ meas_fnames = Canonical(disk_meas)
         /\ dark_fnames = Canonical(disk_dark)
    /\ \A k \in 1..Len(read_log) :
         /\ read_log[k].fname = meas_fnames[k]
         /\ read_log[k] \in {ReadSpectrum(meas_fnames[k], b) : b \in BOOLEAN}
    /\ \A k \in 1..Len(fit_log) :
         /\ fit_log[k].y = read_log[k].y
         /\ fit_log[k].dark = AverageSpectra(dark_fnames)
         /\ fit_log[k].seeds =
              IF k = 1 THEN Seeds(ParamDefs)
              ELSE IF fit_log[k - 1].result.nerr = 0
                   THEN FitVals(fit_log[k - 1].result)
                   ELSE fit_log[k - 1].seeds
    /\ saved_file.count > 0 =>
         /\ saved_file.header = Header(ParamDefs)
         /\ Len(saved_file.rows) = Cardinality(disk_meas)
         /\ \A k \in 1..Len(saved_file.rows) :
              saved_file.rows[k] = Row(k - 1, read_log[k].time, fit_log[k].result)

C11_Witness ==
    /\ pc = "done"
    /\ Cardinality(disk_meas) = 3
    /\ disk_dark # {}
    /\ fit_log[3].seeds # Seeds(ParamDefs)
    /\ saved_file.rows = df


CountOf(op) == Cardinality({e \in 1..Len(events) : events[e][1] = op})

ViewOps == {"figure", "render", "tight", "show", "dismiss"}

\* C13: the Live View is constructed (Uninitialized -> Ready) at most once,
\* only when visualization is enabled and before the first iteration; it gets
\* one update per processed spectrum; it is Closed only once every iteration
\* is over; with visualization disabled it is never constructed, updated or
\* closed.
C13_ViewLifecycle ==
    /\ ~plotting_flag =>
         /\ view = NoView
         /\ \A e \in 1..Len(events) : events[e][1] \notin ViewOps
    /\ CountOf("figure") <= 1
    /\ view.state # "Uninitialized" => (plotting_flag /\ CountOf("figure") = 1)
    /\ plotting_flag =>
         \A e \in 1..Len(events) :
             events[e][1] = "load" =>
                 \E f \in 1..(e - 1) : events[f][1] = "figure"
    /\ view.updates = CountOf("render")
    /\ view.state = "Ready" => view.updates = 0
    /\ view.state = "Updating" => view.updates >= 1
    /\ (plotting_flag /\ pc \in {"read", "fit", "row", "plot"}) => view.updates = i
    /\ (plotting_flag /\ AfterLoop) => view.updates = N
    /\ (plotting_flag /\ pc = "aborted") =>
         view.updates \in {RecordedCount, RecordedCount - 1}
    /\ view.state = "Closed" =>
         /\ pc \in {"blocked", "save", "done"}
         /\ RecordedCount = N
         /\ view.updates = N
         /\ CountOf("show") = 1

C13_Witness ==
    /\ plotting_flag
    /\ view.state = "Closed"
    /\ view.updates = 3
    /\ pc = "done"


\* the steps of iteration k, in the order of the loop body
IterSteps(k) ==
    << <<"load", k>>, <<"fit", k>>, <<"record", k>> >>
        \o (IF plotting_flag THEN << <<"render", k>> >> ELSE <<>>)

RECURSIVE Schedule(_)
Schedule(n) == IF n = 0 THEN <<>> ELSE Schedule(n - 1) \o IterSteps(n - 1)

IsLoopStep(e) == e[1] \in {"load", "fit", "record", "render"}

LoopSteps == SelectSeq(events, IsLoopStep)

\* C14: for every identifier k, load(k), fit(k), record(k) and, with the view
\* enabled, render(k) happen in that order and all before load(k+1): what the
\* loop has done so far is always an initial part of that schedule, and the
\* whole of it when the run completes.
C14_StrictSequence ==
    /\ Len(LoopSteps) <= Len(Schedule(N))
    /\ LoopSteps = SubSeq(Schedule(N), 1, Len(LoopSteps))
    /\ pc = "done" => LoopSteps = Schedule(N)
    /\ pc \in {"read", "fit", "row", "plot"} =>
         \A e \in 1..Len(LoopSteps) : LoopSteps[e][2] <= i

C14_Witness ==
    /\ pc = "done"
    /\ plotting_flag
    /\ N = 3
    /\ Len(LoopSteps) = 12


ViewUpdated == view.updates >= 1

\* C15 as stated: at the update of iteration i the time-series line holds
\* i+1 points, those of rows 0..i, and nothing for the rows still to come.
C15_OnlyProcessedRows ==
    ViewUpdated =>
        /\ Len(view.l5[1]) = view.shown + 1
        /\ Len(view.l5[2]) = view.shown + 1

\* C15 amended: at the update of iteration i the time-series line is given
\* the whole Number and SO2 columns of the preallocated table: N points, the
\* first i+1 holding Number and the fitted SO2 of rows 0..i, the other
\* N-i-1 being NaN in both coordinates.
C15_WholeColumns ==
    ViewUpdated =>
        /\ Len(view.l5[1]) = N
        /\ Len(view.l5[2]) = N
        /\ \A k \in 1..N :
             IF k <= view.shown + 1
             THEN /\ view.l5[1][k] = k - 1
                  /\ view.l5[2][k] = fit_log[k].result.params[1].fit_val
             ELSE /\ view.l5[1][k] = NaN
                  /\ view.l5[2][k] = NaN

C15_Witness ==
    /\ ViewUpdated
    /\ N = 3
    /\ view.shown = 1
    /\ view.l5[2][2] # NaN
    /\ view.l5[2][3] = NaN


\* C16: layout tightening happens exactly once in a run with the view enabled
\* and at least one spectrum: in the first update (iteration 0), right after
\* that update's data has been pushed, and in no later iteration.
C16_TightOnce ==
    /\ view.tight = CountOf("tight")
    /\ view.tight = IF view.updates >= 1 THEN 1 ELSE 0
    /\ \A e \in 1..Len(events) :
         events[e][1] = "tight" =>
             /\ events[e] = <<"tight", 0>>
             /\ e > 1
             /\ events[e - 1] = <<"render", 0>>
    /\ (pc = "done" /\ plotting_flag /\ N >= 1) => view.tight = 1
    /\ ~plotting_flag => view.tight = 0

C16_Witness ==
    /\ pc = "done"
    /\ plotting_flag
    /\ N = 3
    /\ view.updates = 3
    /\ view.tight = 1


C17_FilledPrefix ==
    /\ \A k \in 1..Len(df) : IsFilled(df[k]) <=> k <= RecordedCount
    /\ pc \in {"read", "fit", "row"} => RecordedCount = i
    /\ pc = "plot" => RecordedCount = i + 1
    /\ (AfterLoop /\ N > 0) => (RecordedCount = i + 1 /\ RecordedCount = N)
    /\ (AfterLoop \/ LoopStarted) => Len(df) = N

C17_NeverModified ==
    /\ \A k \in 1..Len(df) :
         /\ IsFilled(df[k]) => (Len(df') = Len(df) /\ df'[k] = df[k])
         /\ (~IsFilled(df[k]) /\ df'[k] # df[k]) => k = RecordedCount + 1
    /\ df # <<>> => Len(df') = Len(df)

\* C17: the table is append-only in processing order: when iteration i ends
\* exactly rows 0..i are filled and rows i+1..N-1 are still empty, a step
\* fills no row but the next one, and a filled row is never modified again.
C17_AppendOnly == [](C17_FilledPrefix) /\ [][C17_NeverModified]_vars

C17_Witness ==
    /\ pc = "read"
    /\ i = 2
    /\ N = 3
    /\ IsFilled(df[2])
    /\ ~IsFilled(df[3])


\* C18: a run that aborts inside the loop writes no output file at all:
\* nothing is persisted while the loop runs, and what is persisted is the
\* table after every one of the N iterations has finished, never a partly
\* filled one.
C18_NoPartialOutput ==
    /\ pc = "aborted" => (saved_file = NoFile /\ CountOf("save") = 0)
    /\ pc \in {"read", "fit", "row", "plot"} => saved_file = NoFile
    /\ saved_file.count > 0 =>
         /\ Len(saved_file.rows) = N
         /\ \A k \in 1..N : IsFilled(saved_file.rows[k])
         /\ LoopSteps = Schedule(N)
         /\ abort_cause = "none"

C18_Witness ==
    /\ pc = "aborted"
    /\ N = 3
    /\ Len(df) = 3
    /\ IsFilled(df[2])
    /\ ~IsFilled(df[3])
    /\ saved_file = NoFile


\* C19: with the view enabled the table is written strictly after the view
\* was dismissed: nothing is written while plt.show() blocks, and a written
\* file has show, dismiss, save in that order behind it, so without a
\* dismissal there is no file; with the view disabled the script never blocks
\* and the save follows the last row directly.
C19_SaveAfterDismiss ==
    /\ pc = "blocked" =>
         /\ plotting_flag
         /\ view.state = "Closed"
         /\ saved_file = NoFile
         /\ CountOf("dismiss") = 0
    /\ (plotting_flag /\ (saved_file.count > 0 \/ pc = "save")) =>
         /\ CountOf("show") = 1
         /\ CountOf("dismiss") = 1
    /\ (plotting_flag /\ saved_file.count > 0) =>
         /\ Len(events) >= 3
         /\ events[Len(events) - 2][1] = "show"
         /\ events[Len(events) - 1][1] = "dismiss"
         /\ events[Len(events)][1] = "save"
    /\ ~plotting_flag =>
         /\ pc # "blocked"
         /\ saved_file.count > 0 =>
              /\ Len(events) >= 2
              /\ events[Len(events)][1] = "save"
              /\ events[Len(events) - 1] =
                   IF N > 0 THEN <<"record", N - 1>> ELSE <<"dark", 0>>

C19_Witness ==
    /\ pc = "done"
    /\ plotting_flag
    /\ N = 3
    /\ saved_file.count = 1
    /\ CountOf("dismiss") = 1

====
